---- MODULE Spec2Model ----
(***************************************************************************)
(* A model of flax/geometry.py: the Span, Rectangle and Blob value types.  *)
(*                                                                         *)
(* A Point is <<x, y>>, a Size is <<width, height>>, a Span is             *)
(* <<start, end>>, a Rectangle is <<origin, size>> (the tuples the Python  *)
(* classes are), and a Blob is its `spans` mapping: a function from the    *)
(* stored rows to the sequence of Spans of that row.                       *)
(*                                                                         *)
(* Three specifications share the module:                                  *)
(*   Spec      blobs built by from_rectangle, + and - in two registers     *)
(*   SpanSpec  Span.shift_into_view on bounded spans, points and margins   *)
(*   RectSpec  Rectangle.shrink and Rectangle.iter_border                  *)
(***************************************************************************)
EXTENDS Integers, Sequences, FiniteSets

VARIABLES
    a, b,       \* Spec: the two Blobs the caller holds
    r,          \* Spec: the Blob the last operator returned
    op,         \* Spec: the last operation ("from_rectangle", "add", "sub", "keep")
    span,       \* SpanSpec: the Span shift_into_view is called on
    point,      \* SpanSpec: its `point` argument
    margin,     \* SpanSpec: its `margin` argument
    call,       \* SpanSpec: "none", "default" (margin omitted) or "margin"
    shifted,    \* SpanSpec: the outcome of the call
    rect,       \* RectSpec: the Rectangle
    rop,        \* RectSpec: "none", "shrink" or "iter_border"
    amount,     \* RectSpec: the argument of the last shrink
    shrunk,     \* RectSpec: the Rectangle the last shrink returned
    border      \* RectSpec: the sequence of pairs the last iter_border yielded

vars == <<a, b, r, op, span, point, margin, call, shifted,
          rect, rop, amount, shrunk, border>>

blobVars == <<a, b, r, op>>
spanVars == <<span, point, margin, call, shifted>>
rectVars == <<rect, rop, amount, shrunk, border>>

(***************************************************************************)
(* Bounds of the model.                                                    *)
(***************************************************************************)
\* Spec: rectangles lie in columns 0..MaxX and rows 0..MaxY; + and - are
\* applied only when no row of the result holds more than MaxSpans spans
\* (repeated unions can repeat a span without limit).
MaxX == 3
MaxY == 0
MaxSpans == 4
\* SpanSpec: spans lie in 0..MaxEnd, points up to PointSlack outside that
\* range, margins in 0..MaxMargin.
MaxEnd == 9
PointSlack == 6
MaxMargin == 2
\* RectSpec: origins in -MaxOrigin..MaxOrigin, sides in 0..MaxSide, shrink
\* amounts in 0..MaxAmount.
MaxOrigin == 1
MaxSide == 3
MaxAmount == 2

Min(x, y) == IF x <= y THEN x ELSE y
Max(x, y) == IF x >= y THEN x ELSE y

(***************************************************************************)
(* Span                                                                    *)
(***************************************************************************)
SpanContains(s, n) == s[1] <= n /\ n <= s[2]

SpanLen(s) == s[2] - s[1] + 1

Overlaps(s, other) == s[1] <= other[2] /\ s[2] >= other[1]

\* Span.__add__ with an int.
SpanAdd(s, n) == <<s[1] + n, s[2] + n>>

Returned(s) == [status |-> "returned", value |-> s]
AssertionError == [status |-> "AssertionError", value |-> <<0, 0>>]

\* shift_into_view with the margin left out of the shift.
ShiftIntoViewNoMargin(s, pt, mg) ==
    IF s[1] + mg <= pt /\ pt <= s[2] - mg THEN Returned(s)
    ELSE IF ~(mg > 0) THEN AssertionError
    ELSE Returned(SpanAdd(s, Min(0, pt - s[1]) + Max(0, pt - s[2])))

\* point and margin are ints here, so only `assert margin > 0` can fail.
ShiftIntoView(s, pt, mg) ==
    IF s[1] + mg <= pt /\ pt <= s[2] - mg THEN Returned(s)
    ELSE IF ~(mg > 0) THEN AssertionError
    ELSE LET d == Min(0, pt - (s[1] + mg)) + Max(0, pt - (s[2] - mg))
         IN Returned(SpanAdd(s, d))

(***************************************************************************)
(* Rectangle                                                               *)
(***************************************************************************)
Size(width, height) == <<width, height>>

Rectangle(origin, size) == <<origin, size>>

Top(rc) == rc[1][2]
Left(rc) == rc[1][1]
Width(rc) == rc[2][1]
Height(rc) == rc[2][2]
Bottom(rc) == rc[1][2] + rc[2][2] - 1
Right(rc) == rc[1][1] + rc[2][1] - 1

HorizontalSpan(rc) == <<Left(rc), Right(rc)>>

RangeHeight(rc) == Top(rc) .. Bottom(rc)

\* from_edges with the +1 of the inclusive bounds left out.
FromEdgesExclusive(top, bottom, left, right) ==
    Rectangle(<<left, top>>, Size(right - left, bottom - top))

FromEdges(top, bottom, left, right) ==
    Rectangle(<<left, top>>, Size(right - left + 1, bottom - top + 1))

\* The new edges of one axis in shrink: <<low, high>>.
ShrinkAxis(low, high, amt) ==
    IF low + amt > high - amt
    THEN <<(low + high) \div 2, (low + high) \div 2>>
    ELSE <<low + amt, high - amt>>

RectShrink(rc, amt) ==
    LET h == ShrinkAxis(Left(rc), Right(rc), amt)
        v == ShrinkAxis(Top(rc), Bottom(rc), amt)
    IN FromEdges(v[1], v[2], h[1], h[2])

Orthogonal == {"up", "down", "left", "right"}
Diagonal == {"up_left", "up_right", "down_left", "down_right"}

\* The pairs of `for k in range(first, last): yield p(k), d1; yield q(k), d2`
\* for the x loop (horizontal = TRUE) and the y loop of iter_border.
EdgePairs(rc, first, last, horizontal) ==
    LET n == IF last - first > 0 THEN last - first ELSE 0
    IN [k \in 1..(2 * n) |->
          LET c == first + ((k - 1) \div 2)
          IN IF horizontal
             THEN IF k % 2 = 1 THEN <<<<c, Top(rc)>>, "up">>
                               ELSE <<<<c, Bottom(rc)>>, "down">>
             ELSE IF k % 2 = 1 THEN <<<<Left(rc), c>>, "left">>
                               ELSE <<<<Right(rc), c>>, "right">>]

Corners(rc) ==
    << <<<<Left(rc), Top(rc)>>, "up_left">>,
       <<<<Right(rc), Top(rc)>>, "up_right">>,
       <<<<Left(rc), Bottom(rc)>>, "down_left">>,
       <<<<Right(rc), Bottom(rc)>>, "down_right">> >>

\* iter_border with the x loop starting at self.left.
IterBorderFromLeft(rc) ==
    EdgePairs(rc, Left(rc), Right(rc), TRUE)
        \o EdgePairs(rc, Top(rc) + 1, Bottom(rc), FALSE)
        \o Corners(rc)

\* The sequence of (point, direction) pairs iter_border yields.
IterBorder(rc) ==
    EdgePairs(rc, Left(rc) + 1, Right(rc), TRUE)
        \o EdgePairs(rc, Top(rc) + 1, Bottom(rc), FALSE)
        \o Corners(rc)

(***************************************************************************)
(* Blob                                                                    *)
(***************************************************************************)
FromRectangle(rc) == [y \in RangeHeight(rc) |-> <<HorizontalSpan(rc)>>]

BlobContains(blob, p) ==
    /\ p[2] \in DOMAIN blob
    /\ \E i \in 1..Len(blob[p[2]]) : SpanContains(blob[p[2]][i], p[1])

RECURSIVE SumLen(_)
SumLen(spans) ==
    IF spans = <<>> THEN 0 ELSE SpanLen(Head(spans)) + SumLen(Tail(spans))

RECURSIVE AreaOver(_, _)
AreaOver(blob, rows) ==
    IF rows = {} THEN 0
    ELSE LET y == CHOOSE y \in rows : TRUE
         IN SumLen(blob[y]) + AreaOver(blob, rows \ {y})

Area(blob) == AreaOver(blob, DOMAIN blob)

\* list.sort() on Span tuples: ascending by (start, end).
SpanLess(s, t) == s[1] < t[1] \/ (s[1] = t[1] /\ s[2] < t[2])

RECURSIVE SortInsert(_, _)
SortInsert(sorted, s) ==
    IF sorted = <<>> THEN <<s>>
    ELSE IF SpanLess(s, Head(sorted)) THEN <<s>> \o sorted
    ELSE <<Head(sorted)>> \o SortInsert(Tail(sorted), s)

RECURSIVE SortSpans(_)
SortSpans(spans) ==
    IF spans = <<>> THEN <<>>
    ELSE SortInsert(SortSpans(Tail(spans)), Head(spans))

\* Subsume with `ends.append(subsumed_span.end)` left out.
RECURSIVE SubsumeStartsOnly(_, _, _, _)
SubsumeStartsOnly(s, my_spans, lo, hi) ==
    IF my_spans # <<>> /\ Overlaps(s, Head(my_spans))
    THEN SubsumeStartsOnly(s, Tail(my_spans), Min(lo, Head(my_spans)[1]), hi)
    ELSE <<my_spans, lo, hi>>

\* The while loop of __add__: pops the spans at the front of my_spans that
\* overlap `s`; returns <<my_spans left, min(starts), max(ends)>>.
RECURSIVE Subsume(_, _, _, _)
Subsume(s, my_spans, lo, hi) ==
    IF my_spans # <<>> /\ Overlaps(s, Head(my_spans))
    THEN Subsume(s, Tail(my_spans),
                 Min(lo, Head(my_spans)[1]), Max(hi, Head(my_spans)[2]))
    ELSE <<my_spans, lo, hi>>

\* CombineSpans with `combined_spans.extend(my_spans)` left out.
RECURSIVE CombineSpansNoExtend(_, _, _)
CombineSpansNoExtend(other_spans, my_spans, combined_spans) ==
    IF other_spans = <<>>
    THEN SortSpans(combined_spans)
    ELSE LET s == Head(other_spans)
             m == Subsume(s, my_spans, s[1], s[2])
         IN CombineSpansNoExtend(Tail(other_spans), m[1],
                                 Append(combined_spans, <<m[2], m[3]>>))

\* The for loop of __add__ over other.spans[y], then extend and sort.
RECURSIVE CombineSpans(_, _, _)
CombineSpans(other_spans, my_spans, combined_spans) ==
    IF other_spans = <<>>
    THEN SortSpans(combined_spans \o my_spans)
    ELSE LET s == Head(other_spans)
             m == Subsume(s, my_spans, s[1], s[2])
         IN CombineSpans(Tail(other_spans), m[1],
                         Append(combined_spans, <<m[2], m[3]>>))

BlobAdd(self, other) ==
    [y \in DOMAIN self \cup DOMAIN other |->
        IF y \notin DOMAIN self THEN other[y]
        ELSE IF y \notin DOMAIN other THEN self[y]
        ELSE CombineSpans(other[y], self[y], <<>>)]

None == <<>>

\* `while other_spans and other_spans[0].end < span.start: popleft()`
RECURSIVE DropBefore(_, _)
DropBefore(other_spans, s) ==
    IF other_spans # <<>> /\ Head(other_spans)[2] < s[1]
    THEN DropBefore(Tail(other_spans), s)
    ELSE other_spans

\* Carve with `resolved_spans.append(left_piece)` left out.
RECURSIVE CarveNoLeft(_, _, _)
CarveNoLeft(s, other_spans, resolved_spans) ==
    IF other_spans = <<>> THEN <<s, resolved_spans>>
    ELSE LET other_span == Head(other_spans)
         IN IF ~Overlaps(s, other_span) THEN <<s, resolved_spans>>
            ELSE IF s[1] <= other_span[2] /\ other_span[2] < s[2]
                 THEN CarveNoLeft(<<other_span[2] + 1, s[2]>>,
                                  Tail(other_spans), resolved_spans)
                 ELSE <<None, resolved_spans>>

\* The inner for loop of __sub__ over other_spans: returns
\* <<span left (or None), resolved_spans>>.
RECURSIVE Carve(_, _, _)
Carve(s, other_spans, resolved_spans) ==
    IF other_spans = <<>> THEN <<s, resolved_spans>>
    ELSE LET other_span == Head(other_spans)
         IN IF ~Overlaps(s, other_span) THEN <<s, resolved_spans>>
            ELSE LET withLeft ==
                         IF s[1] < other_span[1] /\ other_span[1] <= s[2]
                         THEN Append(resolved_spans, <<s[1], other_span[1] - 1>>)
                         ELSE resolved_spans
                 IN IF s[1] <= other_span[2] /\ other_span[2] < s[2]
                    THEN Carve(<<other_span[2] + 1, s[2]>>,
                               Tail(other_spans), withLeft)
                    ELSE <<None, withLeft>>

\* `if span:` -- a Span is true when it is not None and its __len__ is not 0.
Truthy(s) == s # None /\ SpanLen(s) # 0

\* The outer for loop of __sub__ over self's spans of one row.
RECURSIVE ResolveSpans(_, _, _)
ResolveSpans(spans, other_spans, resolved_spans) ==
    IF spans = <<>> THEN resolved_spans
    ELSE LET s == Head(spans)
             remaining == DropBefore(other_spans, s)
             c == Carve(s, remaining, resolved_spans)
         IN ResolveSpans(Tail(spans), remaining,
                         IF Truthy(c[1]) THEN Append(c[2], c[1]) ELSE c[2])

SubRow(self, other, y) ==
    IF y \notin DOMAIN other THEN self[y]
    ELSE ResolveSpans(self[y], other[y], <<>>)

BlobSub(self, other) ==
    [y \in {z \in DOMAIN self :
                z \notin DOMAIN other \/ SubRow(self, other, z) # <<>>} |->
        SubRow(self, other, y)]

(***************************************************************************)
(* Spec: the caller holds two Blobs, seeds them from rectangles of         *)
(* positive size and composes them with + and -.  __add__ and __sub__      *)
(* compute row y of the result from row y of the operands alone, and a     *)
(* Blob without the row (the empty Blob, a - a) takes the `not in` paths.  *)
(***************************************************************************)
Rects ==
    {Rectangle(<<x, y>>, Size(w, h)) :
        x \in 0..MaxX, y \in 0..MaxY, w \in 1..(MaxX + 1), h \in 1..(MaxY + 1)}

BlobRects == {rc \in Rects : Right(rc) <= MaxX /\ Bottom(rc) <= MaxY}

Points == {<<x, y>> : x \in (0 - 1)..(MaxX + 1), y \in (0 - 1)..(MaxY + 1)}

Bounded(blob) == \A y \in DOMAIN blob : Len(blob[y]) <= MaxSpans

SpanIdle ==
    /\ span = <<0, 0>> /\ point = 0 /\ margin = 0 /\ call = "none"
    /\ shifted = [status |-> "none", value |-> <<0, 0>>]

RectIdle ==
    /\ rect = Rectangle(<<0, 0>>, Size(0, 0)) /\ rop = "none" /\ amount = 0
    /\ shrunk = Rectangle(<<0, 0>>, Size(0, 0)) /\ border = <<>>

BlobIdle ==
    /\ a = <<>> /\ b = <<>> /\ r = <<>> /\ op = "none"

Init ==
    /\ \E rc \in BlobRects : a = FromRectangle(rc) /\ r = a
    /\ \E rc \in BlobRects : b = FromRectangle(rc)
    /\ op = "from_rectangle"
    /\ SpanIdle
    /\ RectIdle

FromRectangleA ==
    /\ \E rc \in BlobRects : a' = FromRectangle(rc) /\ r' = a'
    /\ op' = "from_rectangle"
    /\ UNCHANGED <<b, spanVars, rectVars>>

FromRectangleB ==
    /\ \E rc \in BlobRects : b' = FromRectangle(rc) /\ r' = b'
    /\ op' = "from_rectangle"
    /\ UNCHANGED <<a, spanVars, rectVars>>

\* r = a + b
Add ==
    /\ Bounded(BlobAdd(a, b))
    /\ r' = BlobAdd(a, b)
    /\ op' = "add"
    /\ UNCHANGED <<a, b, spanVars, rectVars>>

\* r = a - b
Sub ==
    /\ Bounded(BlobSub(a, b))
    /\ r' = BlobSub(a, b)
    /\ op' = "sub"
    /\ UNCHANGED <<a, b, spanVars, rectVars>>

\* a = r: the caller rebinds its first Blob to the returned one.
KeepA ==
    /\ op \in {"add", "sub"}
    /\ a' = r
    /\ op' = "keep"
    /\ UNCHANGED <<b, r, spanVars, rectVars>>

\* b = r
KeepB ==
    /\ op \in {"add", "sub"}
    /\ b' = r
    /\ op' = "keep"
    /\ UNCHANGED <<a, r, spanVars, rectVars>>

Next == FromRectangleA \/ FromRectangleB \/ Add \/ Sub \/ KeepA \/ KeepB

Spec == Init /\ [][Next]_vars

(***************************************************************************)
(* Properties of Spec.                                                     *)
(***************************************************************************)
PointsOf(blob) == {p \in Points : BlobContains(blob, p)}

RowInvariant(blob) ==
    \A y \in DOMAIN blob :
        /\ blob[y] # <<>>
        /\ \A i, j \in 1..Len(blob[y]) :
              i < j => /\ blob[y][i][1] <= blob[y][j][1]
                       /\ ~Overlaps(blob[y][i], blob[y][j])

\* C1: every Blob obtained from from_rectangle (positive-size rectangles),
\* + and - keeps the row invariants: each stored row is non-empty, sorted
\* ascending by start, and its spans are pairwise non-overlapping.
C1_RowInvariants == RowInvariant(r)

\* C2: union is set union: after r = a + b, a point is in r if and only
\* if it is in a or in b.
C2_UnionMembership ==
    op = "add" => PointsOf(r) = PointsOf(a) \cup PointsOf(b)

\* A union that merged spans: both operands hold at least two spans on a
\* shared row and the row of the result is neither operand's row.
C2_Witness ==
    /\ op = "add"
    /\ \E y \in DOMAIN a \cap DOMAIN b :
          /\ Len(a[y]) >= 2 /\ Len(b[y]) >= 2
          /\ r[y] # a[y] /\ r[y] # b[y]
          /\ \E i \in 1..Len(a[y]), j \in 1..Len(b[y]) :
                Overlaps(a[y][i], b[y][j])

\* C3: difference is set difference: after r = a - b, a point is in r if
\* and only if it is in a and not in b.
C3_DifferenceMembership ==
    op = "sub" => PointsOf(r) = PointsOf(a) \ PointsOf(b)

\* C4: union is commutative: for a and b whose rows are sorted and
\* non-overlapping, a + b equals b + a (the same row -> spans mapping).
C4_UnionCommutes ==
    (op = "add" /\ RowInvariant(a) /\ RowInvariant(b)) => r = BlobAdd(b, a)

\* C5: round trip: when every point of b is in a, (a - b) + b has the
\* same points as a (checked over every point of the grid, which includes
\* the rows of a).
C5_RoundTrip ==
    (op = "sub" /\ PointsOf(b) \subseteq PointsOf(a))
        => PointsOf(BlobAdd(r, b)) = PointsOf(a)

\* A difference that split a span of a: b is non-empty, inside a, and a row
\* of a - b holds more spans than the row of a.
C5_Witness ==
    /\ op = "sub"
    /\ PointsOf(b) # {}
    /\ PointsOf(b) \subseteq PointsOf(a)
    /\ \E y \in DOMAIN r : Len(r[y]) > Len(a[y])

\* C6: area is additive over disjoint union: when a and b share no point,
\* (a + b).area = a.area + b.area.
C6_AreaAdditive ==
    (op = "add" /\ PointsOf(a) \cap PointsOf(b) = {})
        => Area(r) = Area(a) + Area(b)

\* A union of disjoint Blobs that share a row, one of them of several spans.
C6_Witness ==
    /\ op = "add"
    /\ PointsOf(a) \cap PointsOf(b) = {}
    /\ \E y \in DOMAIN a \cap DOMAIN b : Len(a[y]) >= 2 /\ Len(b[y]) >= 1

(***************************************************************************)
(* SpanSpec: shift_into_view is called once, with or without a margin.     *)
(***************************************************************************)
Spans == {<<s, e>> \in (0..MaxEnd) \X (0..MaxEnd) : s <= e}

ShiftPoints == (0 - PointSlack)..(MaxEnd + PointSlack)

SpanInit ==
    /\ span \in Spans
    /\ point \in ShiftPoints
    /\ margin = 0
    /\ call = "none"
    /\ shifted = [status |-> "none", value |-> <<0, 0>>]
    /\ BlobIdle
    /\ RectIdle

\* span.shift_into_view(point)
ShiftDefault ==
    /\ call = "none"
    /\ margin' = 0
    /\ call' = "default"
    /\ shifted' = ShiftIntoView(span, point, 0)
    /\ UNCHANGED <<span, point, blobVars, rectVars>>

\* span.shift_into_view(point, margin=m)
ShiftMargin ==
    /\ call = "none"
    /\ \E m \in 0..MaxMargin :
          /\ margin' = m
          /\ shifted' = ShiftIntoView(span, point, m)
    /\ call' = "margin"
    /\ UNCHANGED <<span, point, blobVars, rectVars>>

SpanNext == ShiftDefault \/ ShiftMargin

SpanSpec == SpanInit /\ [][SpanNext]_vars

\* C7: with the default margin, shift_into_view of a point the span does
\* not contain returns a Span of the same length with the point as one
\* of its endpoints.
C7_DefaultShiftReturns ==
    (call = "default" /\ ~SpanContains(span, point))
        => /\ shifted.status = "returned"
           /\ SpanLen(shifted.value) = SpanLen(span)
           /\ (shifted.value[1] = point \/ shifted.value[2] = point)

ScenarioD == call = "margin" /\ span = <<0, 9>> /\ point = 15 /\ margin = 1

\* C8 as stated: Span(0,9).shift_into_view(15, margin=1) returns Span(6,15).
C8_ScenarioD == ScenarioD => shifted = Returned(<<6, 15>>)

\* C8 as amended: Span(0,9).shift_into_view(15, margin=1) returns
\* Span(7,16), which has 15 at end - margin.
C8_ScenarioD_Amended == ScenarioD => shifted = Returned(<<7, 16>>)

C8_Witness == ScenarioD /\ shifted.status = "returned"

(***************************************************************************)
(* RectSpec: one Rectangle is shrunk or has its border iterated.           *)
(***************************************************************************)
AllRects ==
    {Rectangle(<<x, y>>, Size(w, h)) :
        x \in (0 - MaxOrigin)..MaxOrigin, y \in (0 - MaxOrigin)..MaxOrigin,
        w \in 0..MaxSide, h \in 0..MaxSide}

RectInit ==
    /\ rect \in AllRects
    /\ rop = "none"
    /\ amount = 0
    /\ shrunk = rect
    /\ border = <<>>
    /\ BlobIdle
    /\ SpanIdle

\* shrunk = rect.shrink(amt)
Shrink ==
    /\ \E amt \in 0..MaxAmount :
          /\ amount' = amt
          /\ shrunk' = RectShrink(rect, amt)
    /\ rop' = "shrink"
    /\ UNCHANGED <<rect, border, blobVars, spanVars>>

\* border = list(rect.iter_border())
IterateBorder ==
    /\ border' = IterBorder(rect)
    /\ rop' = "iter_border"
    /\ UNCHANGED <<rect, amount, shrunk, blobVars, spanVars>>

RectNext == Shrink \/ IterateBorder

RectSpec == RectInit /\ [][RectNext]_vars

\* C9 as stated: rect.shrink(0) == rect for every Rectangle, those of zero
\* width or height included.
C9_ShrinkZero == (rop = "shrink" /\ amount = 0) => shrunk = rect

\* C9 as amended: rect.shrink(0) == rect for every Rectangle of width >= 1
\* and height >= 1.
C9_ShrinkZero_Amended ==
    (rop = "shrink" /\ amount = 0 /\ Width(rect) >= 1 /\ Height(rect) >= 1)
        => shrunk = rect

C9_Witness ==
    /\ rop = "shrink" /\ amount = 0
    /\ Width(rect) >= 2 /\ Height(rect) >= 1 /\ Left(rect) < 0

Perimeter(rc) ==
    {<<x, y>> \in (Left(rc)..Right(rc)) \X (Top(rc)..Bottom(rc)) :
        x \in {Left(rc), Right(rc)} \/ y \in {Top(rc), Bottom(rc)}}

IsCorner(rc, p) == p[1] \in {Left(rc), Right(rc)} /\ p[2] \in {Top(rc), Bottom(rc)}

\* A non-corner perimeter point carries the direction of the edge it is on.
OnEdge(rc, p, d) ==
    \/ d = "up" /\ p[2] = Top(rc)
    \/ d = "down" /\ p[2] = Bottom(rc)
    \/ d = "left" /\ p[1] = Left(rc)
    \/ d = "right" /\ p[1] = Right(rc)

BorderExact(rc, pairs) ==
    /\ \A i \in 1..Len(pairs) : pairs[i][1] \in Perimeter(rc)
    /\ \A p \in Perimeter(rc) :
          Cardinality({i \in 1..Len(pairs) : pairs[i][1] = p}) = 1
    /\ \A i \in 1..Len(pairs) :
          IF IsCorner(rc, pairs[i][1])
          THEN pairs[i][2] \in Diagonal
          ELSE OnEdge(rc, pairs[i][1], pairs[i][2])

\* C10 as stated: for width >= 1 and height >= 1, iter_border yields exactly
\* one pair per perimeter point and no other point: corners with a diagonal
\* direction, the other perimeter points with the direction of their edge.
C10_BorderExact ==
    (rop = "iter_border" /\ Width(rect) >= 1 /\ Height(rect) >= 1)
        => BorderExact(rect, border)

\* C10 as amended: the same for width >= 2 and height >= 2.
C10_BorderExact_Amended ==
    (rop = "iter_border" /\ Width(rect) >= 2 /\ Height(rect) >= 2)
        => BorderExact(rect, border)

C10_Witness ==
    /\ rop = "iter_border"
    /\ Width(rect) >= 3 /\ Height(rect) >= 3
    /\ Len(border) = Cardinality(Perimeter(rect))

====
